---- MODULE Spec2Model ----
(***************************************************************************)
(* Model of the S3 download benchmark (main.go): parseFlags, the work list *)
(* builder, and the run pipeline of one feeder goroutine, one latency      *)
(* collector goroutine and N downloader goroutines over two buffered       *)
(* channels.                                                               *)
(*                                                                         *)
(* Abstractions.  Object keys are the numbers 1..M.  A work item on the    *)
(* work channel is written as its position in downloadList (its key is     *)
(* downloadList[position]); the latency sample of the fetch of position p  *)
(* is written p, so that the digest is the bag of positions whose samples  *)
(* were added.  log.Fatal and os.Exit end the process: every action is     *)
(* guarded by exited = "running".                                          *)
(***************************************************************************)
EXTENDS Integers, Sequences, FiniteSets, Bags, TLC

\* ---- bounds of the explored inputs ----
MaxCount == 2          \* --count is drawn from 0..MaxCount
MaxGoroutines == 2     \* --goroutines is drawn from 0..MaxGoroutines
MaxDownload == 3       \* --download (MiB) is drawn from 0..MaxDownload
MaxKeys == 2           \* a listing returns 0..MaxKeys keys

\* ---- program constants ----
KiB == 1024
MiB == 1024 * KiB
MaxChanSize == 1024

fileSets ==
  [ K001 |-> [Size |-> KiB],        K004 |-> [Size |-> 4 * KiB],
    K016 |-> [Size |-> 16 * KiB],   K064 |-> [Size |-> 64 * KiB],
    K256 |-> [Size |-> 256 * KiB],  M001 |-> [Size |-> MiB],
    M004 |-> [Size |-> 4 * MiB],    M016 |-> [Size |-> 16 * MiB],
    M032 |-> [Size |-> 32 * MiB],   M064 |-> [Size |-> 64 * MiB],
    M128 |-> [Size |-> 128 * MiB],  M256 |-> [Size |-> 256 * MiB] ]

\* The --set values explored: two known labels and an unknown one.  With
\* --download at most a few MiB the products below stay far from the int width.
SetChoices == {"M001", "M004", "X999"}

Workers == 1..MaxGoroutines

VARIABLES
  flags,          \* the command line: count, goroutines, set, download
  cfg,            \* *myConfig returned by parseFlags
  mainpc,         \* position of the main goroutine
  runIdx,         \* i of main's loop
  exited,         \* "running", "exit" (os.Exit(ec)) or the reason of a log.Fatal / panic
  fileList,       \* shuffled listing of the current run
  downloadList,   \* the work list of the current run
  chanSize,
  work,           \* buffered channel of work items (positions)
  workClosed,
  latency,        \* buffered channel of latency samples
  latencyClosed,
  latencyDone,    \* latencyDone channel closed
  td,             \* the digest: bag of samples added
  feederPc,       \* "none", "push", "done"
  feederIdx,      \* next position of downloadList the feeder sends
  collectorPc,    \* "none", "run", "done"
  wpc,            \* per worker: "none", "recv", "fetch", "send", "done"
  witem,          \* per worker: the item in hand (0: none)
  openBodies,     \* per worker: response bodies whose deferred Close has not run
  wg,             \* WaitGroup counter
  spawned,        \* i of the worker launch loop
  started,        \* startTime taken
  elapsed,        \* elapsedSec taken
  datapoint,      \* the Datapoint assembled by run
  stdout,         \* lines printed
  dequeued,       \* history: per position, the number of receives from the work channel
  fetchOK,        \* history: per position, the number of successful GetObject calls
  pushed,         \* history: bag of samples sent on the latency channel
  listCalls,      \* history: listing calls issued by the process
  fetchCalls,     \* history: GetObject calls issued by the process
  failed          \* history: a GetObject call returned an error

vars == << flags, cfg, mainpc, runIdx, exited, fileList, downloadList, chanSize,
           work, workClosed, latency, latencyClosed, latencyDone, td, feederPc,
           feederIdx, collectorPc, wpc, witem, openBodies, wg, spawned, started,
           elapsed, datapoint, stdout, dequeued, fetchOK, pushed, listCalls,
           fetchCalls, failed >>

cfgVars == << flags, cfg >>
histVars == << dequeued, fetchOK, pushed, listCalls, fetchCalls, failed >>

NoCfg == [Count |-> 0, DownloadSizeBytes |-> 0, FileSetName |-> "", Goroutines |-> 0]
NoDatapoint == [FileSizeBytes |-> 0, FileSizeLabel |-> "", Goroutines |-> 0,
                TotalSizeBytes |-> 0, P50Latency |-> "", P95Latency |-> "",
                P99Latency |-> ""]

\* ---- pure helpers ----

\* rand.Shuffle of a listing of M distinct keys: any permutation of 1..M
Shuffles(M) == { s \in [1..M -> 1..M] : \A i, j \in 1..M : s[i] = s[j] => i = j }

\* line 218: the work list is long enough
ReachedNeededOffByOne(files, numFilesNeeded) == Len(files) > numFilesNeeded
ReachedNeeded(files, numFilesNeeded) == Len(files) >= numFilesNeeded

\* lines 215-216: the range loop moves to the next key, the outer loop restarts it
NextKeyIndexNoRestart(j, n) == IF j = n THEN n ELSE j + 1
NextKeyIndexNoAdvance(j, n) == j
NextKeyIndex(j, n) == IF j = n THEN 1 ELSE j + 1

\* lines 213-222: the append loop of buildDownloadList, from files with the
\* range loop at index j of fileList
RECURSIVE AppendLoop(_, _, _, _)
AppendLoop(list, files, j, numFilesNeeded) ==
  LET files2 == Append(files, list[j])
  IN  IF ReachedNeeded(files2, numFilesNeeded)
      THEN files2
      ELSE AppendLoop(list, files2, NextKeyIndex(j, Len(list)), numFilesNeeded)

\* line 208
NumFilesNeeded(c) == c.DownloadSizeBytes \div fileSets[c.FileSetName].Size

\* lines 258-261
ChanSizeOfUncapped(c) == c.Goroutines
ChanSizeOf(c) == IF c.Goroutines > MaxChanSize THEN MaxChanSize ELSE c.Goroutines

\* a receive from a buffered channel removes the head of the buffer
DequeueKeepsHead(q) == q
Dequeue(q) == Tail(q)

\* td.Quantile (lines 317-319): the tdigest library pinned in go.mod answers
\* NaN for a digest that holds no sample, and a number otherwise
Quantile(t) == IF BagCardinality(t) = 0 THEN "NaN" ELSE "num"

\* json.Marshal (line 323): encoding/json returns an UnsupportedValueError for
\* a NaN float, which run turns into log.Fatalf at line 325
MarshalOK(dp) ==
  /\ dp.P50Latency # "NaN"
  /\ dp.P95Latency # "NaN"
  /\ dp.P99Latency # "NaN"

Running == exited = "running"

ZeroPos == [p \in {} |-> 0]

\* the values the per-run variables have outside of a run.  The digest of the
\* run that returned is left as it is: run makes a new one at line 275.
RunCleared ==
  /\ fileList' = << >>
  /\ downloadList' = << >>
  /\ chanSize' = 0
  /\ work' = << >>
  /\ workClosed' = FALSE
  /\ latency' = << >>
  /\ latencyClosed' = FALSE
  /\ latencyDone' = FALSE
  /\ td' = td
  /\ feederPc' = "none"
  /\ feederIdx' = 1
  /\ collectorPc' = "none"
  /\ wpc' = [w \in Workers |-> "none"]
  /\ witem' = [w \in Workers |-> 0]
  /\ openBodies' = [w \in Workers |-> 0]
  /\ wg' = 0
  /\ spawned' = 0
  /\ started' = FALSE
  /\ elapsed' = FALSE
  /\ datapoint' = NoDatapoint
  /\ dequeued' = ZeroPos
  /\ fetchOK' = ZeroPos
  /\ pushed' = EmptyBag

runVars == << fileList, downloadList, chanSize, work, workClosed, latency,
              latencyClosed, latencyDone, td, feederPc, feederIdx, collectorPc,
              wpc, witem, openBodies, wg, spawned, started, elapsed, datapoint >>
chanVars == << work, workClosed, latency, latencyClosed, latencyDone, td >>
taskVars == << feederPc, feederIdx, collectorPc, wpc, witem, openBodies, wg >>

Init ==
  /\ flags \in [count : 0..MaxCount, goroutines : 0..MaxGoroutines,
                set : SetChoices, download : 0..MaxDownload]
  /\ cfg = NoCfg
  /\ mainpc = "parse"
  /\ runIdx = 0
  /\ exited = "running"
  /\ fileList = << >>
  /\ downloadList = << >>
  /\ chanSize = 0
  /\ work = << >>
  /\ workClosed = FALSE
  /\ latency = << >>
  /\ latencyClosed = FALSE
  /\ latencyDone = FALSE
  /\ td = EmptyBag
  /\ feederPc = "none"
  /\ feederIdx = 1
  /\ collectorPc = "none"
  /\ wpc = [w \in Workers |-> "none"]
  /\ witem = [w \in Workers |-> 0]
  /\ openBodies = [w \in Workers |-> 0]
  /\ wg = 0
  /\ spawned = 0
  /\ started = FALSE
  /\ elapsed = FALSE
  /\ datapoint = NoDatapoint
  /\ stdout = << >>
  /\ dequeued = ZeroPos
  /\ fetchOK = ZeroPos
  /\ pushed = EmptyBag
  /\ listCalls = 0
  /\ fetchCalls = 0
  /\ failed = FALSE


\* ---- parseFlags (lines 92-122) ----

\* line 106.  MiB and every Size are powers of two that divide 2^64, so a
\* product int(*downloadSize) * MiB that wraps keeps its remainder: the test
\* decides the same for the wrapped and the unwrapped product.
NotMultipleNever(dlSize, size) == FALSE
NotMultiple(dlSize, size) == dlSize % size # 0

Fatal(reason) == exited' = reason

ParseFlags ==
  /\ Running
  /\ mainpc = "parse"
  /\ IF flags.set \notin DOMAIN fileSets
     THEN Fatal("fatal_fileset") /\ UNCHANGED << cfg, mainpc >>
     ELSE LET size == fileSets[flags.set].Size
              dlSize == flags.download * MiB
              dlCount == dlSize \div size
          IN  IF NotMultiple(dlSize, size)
              THEN Fatal("fatal_multiple") /\ UNCHANGED << cfg, mainpc >>
              ELSE IF flags.goroutines > dlCount
                   THEN Fatal("fatal_goroutines") /\ UNCHANGED << cfg, mainpc >>
                   ELSE /\ cfg' = [Count |-> flags.count,
                                   DownloadSizeBytes |-> dlSize,
                                   FileSetName |-> flags.set,
                                   Goroutines |-> flags.goroutines]
                        /\ mainpc' = "loop"
                        /\ UNCHANGED exited
  /\ UNCHANGED << flags, runIdx, stdout >>
  /\ UNCHANGED runVars
  /\ UNCHANGED histVars

\* ---- main (lines 338-343) ----

MainLoop ==
  /\ Running
  /\ mainpc = "loop"
  /\ IF runIdx < cfg.Count
     THEN mainpc' = "configS3" /\ UNCHANGED exited
     ELSE exited' = "exit" /\ UNCHANGED mainpc
  /\ UNCHANGED << cfgVars, runIdx, stdout >>
  /\ UNCHANGED runVars
  /\ UNCHANGED histVars

\* ---- run (lines 242-331) ----

\* lines 245-248: loading the client configuration succeeds or fails
ConfigS3 ==
  /\ Running
  /\ mainpc = "configS3"
  /\ \/ mainpc' = "build" /\ UNCHANGED exited
     \/ Fatal("fatal_configS3") /\ UNCHANGED mainpc
  /\ UNCHANGED << cfgVars, runIdx, stdout >>
  /\ UNCHANGED runVars
  /\ UNCHANGED histVars

\* lines 204-222 of buildDownloadList on the shuffled listing: the error it
\* returns, the fatal exit it takes, or the work list
BuildResultEmptyAccepted(list, c) ==
  IF Len(list) = 0 THEN [err |-> "", files |-> << >>]
  ELSE IF NumFilesNeeded(c) = 0 THEN [err |-> "fatal_zero", files |-> << >>]
  ELSE [err |-> "", files |-> AppendLoop(list, << >>, 1, NumFilesNeeded(c))]
BuildResult(list, c) ==
  IF Len(list) = 0 THEN [err |-> "fatal_empty", files |-> << >>]
  ELSE IF NumFilesNeeded(c) = 0 THEN [err |-> "fatal_zero", files |-> << >>]
  ELSE [err |-> "", files |-> AppendLoop(list, << >>, 1, NumFilesNeeded(c))]

\* lines 251-254 with listS3Files (164-196) and buildDownloadList (198-223):
\* one listing call, which fails on a page or returns 0..MaxKeys keys, shuffled
BuildDownloadList ==
  /\ Running
  /\ mainpc = "build"
  /\ listCalls' = listCalls + 1
  /\ \/ /\ Fatal("fatal_list")
        /\ UNCHANGED << mainpc, fileList, downloadList, dequeued, fetchOK >>
     \/ \E M \in 0..MaxKeys : \E s \in Shuffles(M) :
          LET r == BuildResult(s, cfg)
          IN  /\ fileList' = s
              /\ IF r.err # ""
                 THEN /\ Fatal(r.err)
                      /\ UNCHANGED << mainpc, downloadList, dequeued, fetchOK >>
                 ELSE /\ downloadList' = r.files
                      /\ dequeued' = [p \in 1..Len(r.files) |-> 0]
                      /\ fetchOK' = [p \in 1..Len(r.files) |-> 0]
                      /\ mainpc' = "feeder"
                      /\ UNCHANGED exited
  /\ UNCHANGED << cfgVars, runIdx, stdout, chanSize, chanVars, taskVars, spawned,
                  started, elapsed, datapoint, pushed, fetchCalls, failed >>

\* lines 258-270: the channel size, the work channel, the feeder goroutine
SpawnFeeder ==
  /\ Running
  /\ mainpc = "feeder"
  /\ chanSize' = ChanSizeOf(cfg)
  /\ work' = << >>
  /\ workClosed' = FALSE
  /\ feederPc' = "push"
  /\ feederIdx' = 1
  /\ mainpc' = "collector"
  /\ UNCHANGED << cfgVars, runIdx, exited, stdout, fileList, downloadList,
                  latency, latencyClosed, latencyDone, td, collectorPc, wpc,
                  witem, openBodies, wg, spawned, started, elapsed, datapoint >>
  /\ UNCHANGED histVars

\* lines 273-281: the latency channel, the digest, the collector goroutine
SpawnCollectorSharedDigest ==
  /\ Running
  /\ mainpc = "collector"
  /\ latency' = << >>
  /\ latencyClosed' = FALSE
  /\ latencyDone' = FALSE
  /\ td' = td
  /\ collectorPc' = "run"
  /\ mainpc' = "start"
  /\ UNCHANGED << cfgVars, runIdx, exited, stdout, fileList, downloadList,
                  chanSize, work, workClosed, feederPc, feederIdx, wpc, witem,
                  openBodies, wg, spawned, started, elapsed, datapoint >>
  /\ UNCHANGED histVars
SpawnCollector ==
  /\ Running
  /\ mainpc = "collector"
  /\ latency' = << >>
  /\ latencyClosed' = FALSE
  /\ latencyDone' = FALSE
  /\ td' = EmptyBag
  /\ collectorPc' = "run"
  /\ mainpc' = "start"
  /\ UNCHANGED << cfgVars, runIdx, exited, stdout, fileList, downloadList,
                  chanSize, work, workClosed, feederPc, feederIdx, wpc, witem,
                  openBodies, wg, spawned, started, elapsed, datapoint >>
  /\ UNCHANGED histVars

\* line 284
StartTimer ==
  /\ Running
  /\ mainpc = "start"
  /\ started' = TRUE
  /\ mainpc' = "spawn"
  /\ UNCHANGED << cfgVars, runIdx, exited, stdout, fileList, downloadList,
                  chanSize, chanVars, taskVars, spawned, elapsed, datapoint >>
  /\ UNCHANGED histVars

\* lines 289-295: one iteration of the launch loop
SpawnWorkerOneMore ==
  /\ Running
  /\ mainpc = "spawn"
  /\ spawned <= cfg.Goroutines
  /\ spawned < MaxGoroutines
  /\ wg' = wg + 1
  /\ wpc' = [wpc EXCEPT ![spawned + 1] = "recv"]
  /\ spawned' = spawned + 1
  /\ UNCHANGED << cfgVars, mainpc, runIdx, exited, stdout, fileList, downloadList,
                  chanSize, chanVars, feederPc, feederIdx, collectorPc, witem,
                  openBodies, started, elapsed, datapoint >>
  /\ UNCHANGED histVars
SpawnWorkerNoAdd ==
  /\ Running
  /\ mainpc = "spawn"
  /\ spawned < cfg.Goroutines
  /\ wpc' = [wpc EXCEPT ![spawned + 1] = "recv"]
  /\ spawned' = spawned + 1
  /\ UNCHANGED << cfgVars, mainpc, runIdx, exited, stdout, fileList, downloadList,
                  chanSize, chanVars, feederPc, feederIdx, collectorPc, witem,
                  openBodies, wg, started, elapsed, datapoint >>
  /\ UNCHANGED histVars
SpawnWorker ==
  /\ Running
  /\ mainpc = "spawn"
  /\ spawned < cfg.Goroutines
  /\ wg' = wg + 1
  /\ wpc' = [wpc EXCEPT ![spawned + 1] = "recv"]
  /\ spawned' = spawned + 1
  /\ UNCHANGED << cfgVars, mainpc, runIdx, exited, stdout, fileList, downloadList,
                  chanSize, chanVars, feederPc, feederIdx, collectorPc, witem,
                  openBodies, started, elapsed, datapoint >>
  /\ UNCHANGED histVars

\* line 298: wg.Wait returns when the counter is zero
WgWaitNoWait ==
  /\ Running
  /\ mainpc = "spawn"
  /\ spawned = cfg.Goroutines
  /\ mainpc' = "elapsed"
  /\ UNCHANGED << cfgVars, runIdx, exited, stdout >>
  /\ UNCHANGED runVars
  /\ UNCHANGED histVars
WgWait ==
  /\ Running
  /\ mainpc = "spawn"
  /\ spawned = cfg.Goroutines
  /\ wg = 0
  /\ mainpc' = "elapsed"
  /\ UNCHANGED << cfgVars, runIdx, exited, stdout >>
  /\ UNCHANGED runVars
  /\ UNCHANGED histVars

\* line 299
Elapsed ==
  /\ Running
  /\ mainpc = "elapsed"
  /\ elapsed' = TRUE
  /\ mainpc' = "close"
  /\ UNCHANGED << cfgVars, runIdx, exited, stdout, fileList, downloadList,
                  chanSize, chanVars, taskVars, spawned, started, datapoint >>
  /\ UNCHANGED histVars

\* line 302
CloseLatency ==
  /\ Running
  /\ mainpc = "close"
  /\ latencyClosed' = TRUE
  /\ mainpc' = "waitdone"
  /\ UNCHANGED << cfgVars, runIdx, exited, stdout, fileList, downloadList,
                  chanSize, work, workClosed, latency, latencyDone, td, taskVars,
                  spawned, started, elapsed, datapoint >>
  /\ UNCHANGED histVars

\* line 303: the receive from latencyDone returns once that channel is closed
WaitLatencyDoneNoWait ==
  /\ Running
  /\ mainpc = "waitdone"
  /\ mainpc' = "quantile"
  /\ UNCHANGED << cfgVars, runIdx, exited, stdout >>
  /\ UNCHANGED runVars
  /\ UNCHANGED histVars
WaitLatencyDone ==
  /\ Running
  /\ mainpc = "waitdone"
  /\ latencyDone
  /\ mainpc' = "quantile"
  /\ UNCHANGED << cfgVars, runIdx, exited, stdout >>
  /\ UNCHANGED runVars
  /\ UNCHANGED histVars

\* lines 307-321: the Datapoint, with the three quantile reads
ReadQuantiles ==
  /\ Running
  /\ mainpc = "quantile"
  /\ datapoint' = [FileSizeBytes |-> fileSets[cfg.FileSetName].Size,
                   FileSizeLabel |-> cfg.FileSetName,
                   Goroutines |-> cfg.Goroutines,
                   TotalSizeBytes |-> cfg.DownloadSizeBytes,
                   P50Latency |-> Quantile(td),
                   P95Latency |-> Quantile(td),
                   P99Latency |-> Quantile(td)]
  /\ mainpc' = "emit"
  /\ UNCHANGED << cfgVars, runIdx, exited, stdout, fileList, downloadList,
                  chanSize, chanVars, taskVars, spawned, started, elapsed >>
  /\ UNCHANGED histVars

\* lines 323-330 and the return to main's loop (line 341)
Emit ==
  /\ Running
  /\ mainpc = "emit"
  /\ IF MarshalOK(datapoint)
     THEN /\ stdout' = Append(stdout, datapoint)
          /\ runIdx' = runIdx + 1
          /\ mainpc' = "loop"
          /\ RunCleared
          /\ UNCHANGED exited
     ELSE /\ Fatal("fatal_encode")
          /\ UNCHANGED << stdout, runIdx, mainpc >>
          /\ UNCHANGED runVars
          /\ UNCHANGED << dequeued, fetchOK, pushed >>
  /\ UNCHANGED << cfgVars, listCalls, fetchCalls, failed >>


\* ---- the feeder goroutine (lines 265-270) ----

\* line 267: a send on the work channel, which blocks while the buffer is full
\* (with chanSize 0 it needs a receiver, and chanSize is 0 only when no worker exists)
FeederPush ==
  /\ Running
  /\ feederPc = "push"
  /\ feederIdx <= Len(downloadList)
  /\ Len(work) < chanSize
  /\ work' = Append(work, feederIdx)
  /\ feederIdx' = feederIdx + 1
  /\ UNCHANGED << cfgVars, mainpc, runIdx, exited, stdout, fileList, downloadList,
                  chanSize, workClosed, latency, latencyClosed, latencyDone, td,
                  feederPc, collectorPc, wpc, witem, openBodies, wg, spawned,
                  started, elapsed, datapoint >>
  /\ UNCHANGED histVars

\* line 269
FeederCloseEarly ==
  /\ Running
  /\ feederPc = "push"
  /\ workClosed' = TRUE
  /\ feederPc' = "done"
  /\ UNCHANGED << cfgVars, mainpc, runIdx, exited, stdout, fileList, downloadList,
                  chanSize, work, latency, latencyClosed, latencyDone, td,
                  feederIdx, collectorPc, wpc, witem, openBodies, wg, spawned,
                  started, elapsed, datapoint >>
  /\ UNCHANGED histVars
FeederClose ==
  /\ Running
  /\ feederPc = "push"
  /\ feederIdx > Len(downloadList)
  /\ workClosed' = TRUE
  /\ feederPc' = "done"
  /\ UNCHANGED << cfgVars, mainpc, runIdx, exited, stdout, fileList, downloadList,
                  chanSize, work, latency, latencyClosed, latencyDone, td,
                  feederIdx, collectorPc, wpc, witem, openBodies, wg, spawned,
                  started, elapsed, datapoint >>
  /\ UNCHANGED histVars

\* ---- the collector goroutine (lines 276-281) ----

\* lines 277-278: receive one sample and add it to the digest
CollectorAdd ==
  /\ Running
  /\ collectorPc = "run"
  /\ latency # << >>
  /\ td' = td (+) SetToBag({Head(latency)})
  /\ latency' = Dequeue(latency)
  /\ UNCHANGED << cfgVars, mainpc, runIdx, exited, stdout, fileList, downloadList,
                  chanSize, work, workClosed, latencyClosed, latencyDone, taskVars,
                  spawned, started, elapsed, datapoint >>
  /\ UNCHANGED histVars

\* lines 277, 280: the range ends on the closed, drained channel
CollectorFinishNoDrain ==
  /\ Running
  /\ collectorPc = "run"
  /\ latencyClosed
  /\ latencyDone' = TRUE
  /\ collectorPc' = "done"
  /\ UNCHANGED << cfgVars, mainpc, runIdx, exited, stdout, fileList, downloadList,
                  chanSize, work, workClosed, latency, latencyClosed, td, feederPc,
                  feederIdx, wpc, witem, openBodies, wg, spawned, started, elapsed,
                  datapoint >>
  /\ UNCHANGED histVars
CollectorFinish ==
  /\ Running
  /\ collectorPc = "run"
  /\ latency = << >>
  /\ latencyClosed
  /\ latencyDone' = TRUE
  /\ collectorPc' = "done"
  /\ UNCHANGED << cfgVars, mainpc, runIdx, exited, stdout, fileList, downloadList,
                  chanSize, work, workClosed, latency, latencyClosed, td, feederPc,
                  feederIdx, wpc, witem, openBodies, wg, spawned, started, elapsed,
                  datapoint >>
  /\ UNCHANGED histVars

\* ---- a downloader goroutine (lines 225-240, 291-294) ----

\* line 226: receive the next work item
WorkerRecv(w) ==
  /\ Running
  /\ wpc[w] = "recv"
  /\ work # << >>
  /\ witem' = [witem EXCEPT ![w] = Head(work)]
  /\ work' = Dequeue(work)
  /\ dequeued' = [dequeued EXCEPT ![Head(work)] = @ + 1]
  /\ wpc' = [wpc EXCEPT ![w] = "fetch"]
  /\ UNCHANGED << cfgVars, mainpc, runIdx, exited, stdout, fileList, downloadList,
                  chanSize, workClosed, latency, latencyClosed, latencyDone, td,
                  feederPc, feederIdx, collectorPc, openBodies, wg, spawned,
                  started, elapsed, datapoint >>
  /\ UNCHANGED << fetchOK, pushed, listCalls, fetchCalls, failed >>

\* line 226 on the closed, drained channel: downloader returns, its deferred
\* Body.Close calls run (line 237), then wg.Done (line 292)
WorkerExit(w) ==
  /\ Running
  /\ wpc[w] = "recv"
  /\ work = << >>
  /\ workClosed
  /\ wpc' = [wpc EXCEPT ![w] = "done"]
  /\ openBodies' = [openBodies EXCEPT ![w] = 0]
  /\ wg' = wg - 1
  /\ UNCHANGED << cfgVars, mainpc, runIdx, exited, stdout, fileList, downloadList,
                  chanSize, chanVars, feederPc, feederIdx, collectorPc, witem,
                  spawned, started, elapsed, datapoint >>
  /\ UNCHANGED histVars

\* lines 232-235 when GetObject returns an error: log.Fatalf exits the process.
\* main is blocked in wg.Wait until this worker returns, so it takes no step
\* between the error and the exit.
GetObjectFailsSkipped(w) ==
  /\ failed' = TRUE
  /\ witem' = [witem EXCEPT ![w] = 0]
  /\ wpc' = [wpc EXCEPT ![w] = "recv"]
  /\ UNCHANGED << exited, fetchOK, openBodies >>
GetObjectFails(w) ==
  /\ failed' = TRUE
  /\ Fatal("fatal_download")
  /\ UNCHANGED << witem, wpc, fetchOK, openBodies >>

\* line 232: the fetch of the item in hand, which returns a response or an error
WorkerGetObject(w) ==
  /\ Running
  /\ wpc[w] = "fetch"
  /\ fetchCalls' = fetchCalls + 1
  /\ \/ /\ fetchOK' = [fetchOK EXCEPT ![witem[w]] = @ + 1]
        /\ openBodies' = [openBodies EXCEPT ![w] = @ + 1]
        /\ wpc' = [wpc EXCEPT ![w] = "send"]
        /\ UNCHANGED << witem, exited, failed >>
     \/ GetObjectFails(w)
  /\ UNCHANGED << cfgVars, mainpc, runIdx, stdout, fileList, downloadList,
                  chanSize, chanVars, feederPc, feederIdx, collectorPc, wg,
                  spawned, started, elapsed, datapoint >>
  /\ UNCHANGED << dequeued, pushed, listCalls >>

\* lines 236-238: send the sample (a send on a closed channel panics, a full
\* buffer blocks), register the deferred Close, drain the body
WorkerSendAddsDirect(w) ==
  /\ Running
  /\ wpc[w] = "send"
  /\ td' = td (+) SetToBag({witem[w]})
  /\ pushed' = pushed (+) SetToBag({witem[w]})
  /\ witem' = [witem EXCEPT ![w] = 0]
  /\ wpc' = [wpc EXCEPT ![w] = "recv"]
  /\ UNCHANGED << cfgVars, mainpc, runIdx, exited, stdout, fileList, downloadList,
                  chanSize, work, workClosed, latency, latencyClosed, latencyDone,
                  feederPc, feederIdx, collectorPc, openBodies, wg, spawned,
                  started, elapsed, datapoint >>
  /\ UNCHANGED << dequeued, fetchOK, listCalls, fetchCalls, failed >>
WorkerSend(w) ==
  /\ Running
  /\ wpc[w] = "send"
  /\ IF latencyClosed
     THEN /\ Fatal("panic_send_on_closed")
          /\ UNCHANGED << latency, pushed, witem, wpc >>
     ELSE /\ Len(latency) < chanSize
          /\ latency' = Append(latency, witem[w])
          /\ pushed' = pushed (+) SetToBag({witem[w]})
          /\ witem' = [witem EXCEPT ![w] = 0]
          /\ wpc' = [wpc EXCEPT ![w] = "recv"]
          /\ UNCHANGED exited
  /\ UNCHANGED << cfgVars, mainpc, runIdx, stdout, fileList, downloadList,
                  chanSize, work, workClosed, latencyClosed, latencyDone, td,
                  feederPc, feederIdx, collectorPc, openBodies, wg, spawned,
                  started, elapsed, datapoint >>
  /\ UNCHANGED << dequeued, fetchOK, listCalls, fetchCalls, failed >>

Main ==
  \/ ParseFlags
  \/ MainLoop
  \/ ConfigS3
  \/ BuildDownloadList
  \/ SpawnFeeder
  \/ SpawnCollector
  \/ StartTimer
  \/ SpawnWorker
  \/ WgWait
  \/ Elapsed
  \/ CloseLatency
  \/ WaitLatencyDone
  \/ ReadQuantiles
  \/ Emit

Feeder == FeederPush \/ FeederClose

Collector == CollectorAdd \/ CollectorFinish

Worker(w) == WorkerRecv(w) \/ WorkerExit(w) \/ WorkerGetObject(w) \/ WorkerSend(w)

Next == Main \/ Feeder \/ Collector \/ \E w \in Workers : Worker(w)

Spec == Init /\ [][Next]_vars

\* Every goroutine that can take a step eventually takes one.
FairSpec ==
  /\ Spec
  /\ WF_vars(Main)
  /\ WF_vars(Feeder)
  /\ WF_vars(Collector)
  /\ \A w \in Workers : WF_vars(Worker(w))


\* ---- properties ----

Range(s) == { s[i] : i \in 1..Len(s) }
Occurrences(s, k) == Cardinality({ i \in 1..Len(s) : s[i] = k })
AfterBuild == { "feeder", "collector", "start", "spawn", "elapsed", "close",
                "waitdone", "quantile", "emit" }
\* buildDownloadList has just returned its work list to run (line 251)
BuildReturned == Running /\ mainpc = "feeder"
\* run is about to print its Datapoint
AboutToPrint == Running /\ mainpc = "emit" /\ MarshalOK(datapoint)
\* run executes close(latency) in this step
CloseLatencyStep == mainpc = "close" /\ mainpc' = "waitdone"

\* C1: when run prints its Datapoint, the work list has the length parseFlags
\* computed and each of its positions was received once and fetched
\* successfully once.
C1_EveryItemOnce ==
  AboutToPrint =>
    /\ DOMAIN fetchOK = 1..NumFilesNeeded(cfg)
    /\ \A p \in DOMAIN fetchOK : fetchOK[p] = 1 /\ dequeued[p] = 1

C1_Witness ==
  /\ AboutToPrint
  /\ cfg.Goroutines = 2
  /\ Len(downloadList) = 3
  /\ BagCardinality(td) = 3

C3_AllIngestedBeforeRead ==
  (Running /\ mainpc = "quantile") => (td = pushed /\ latency = << >>)

C3_Witness ==
  /\ Running
  /\ mainpc = "quantile"
  /\ cfg.Goroutines = 2
  /\ BagCardinality(pushed) = 3

\* C4: the step in which a fetch returns an error ends the process, and from
\* then on nothing is printed.
C4_DownloadErrorAborts ==
  [][(failed \/ failed') => (exited' = "fatal_download" /\ stdout' = stdout)]_vars

C4_Witness ==
  /\ failed
  /\ exited = "fatal_download"
  /\ cfg.Goroutines = 2
  /\ BagCardinality(td) >= 1
  /\ \E p \in DOMAIN fetchOK : fetchOK[p] = 1

\* C5: the work list buildDownloadList returns is DownloadSizeBytes / Size
\* long and holds only listed keys.
C5_WorkListLength ==
  BuildReturned =>
    /\ Len(downloadList) = cfg.DownloadSizeBytes \div fileSets[cfg.FileSetName].Size
    /\ Range(downloadList) \subseteq Range(fileList)

C5_Witness ==
  /\ mainpc = "feeder"
  /\ Len(fileList) = 2
  /\ Len(downloadList) = 3

\* C6: when more files are needed than the M keys listed, every listed key
\* occurs at least numFilesNeeded \div M times in the work list, which is
\* numFilesNeeded long.
C6_EveryKeyCycled ==
  (BuildReturned /\ NumFilesNeeded(cfg) > Len(fileList)) =>
    /\ Len(downloadList) = NumFilesNeeded(cfg)
    /\ \A k \in Range(fileList) :
         Occurrences(downloadList, k) >= NumFilesNeeded(cfg) \div Len(fileList)

C6_Witness ==
  /\ mainpc = "feeder"
  /\ Len(fileList) = 2
  /\ NumFilesNeeded(cfg) = 3
  /\ downloadList = << fileList[1], fileList[2], fileList[1] >>

\* C7: under fair scheduling, a run that has its work list either sees a
\* fetch fail or reaches the print of its Datapoint with the work channel
\* closed, every launched worker returned and the collector finished.
C7_RunCompletes ==
  (Running /\ mainpc = "feeder") ~>
    \/ failed
    \/ /\ AboutToPrint
       /\ workClosed
       /\ feederPc = "done"
       /\ collectorPc = "done"
       /\ \A w \in 1..cfg.Goroutines : wpc[w] = "done"

\* C8: no position of the work list is received from the work channel more
\* than once.
C8_NoItemTwice ==
  \A p \in DOMAIN dequeued : dequeued[p] <= 1

C8_Witness ==
  /\ Len(downloadList) = 3
  /\ \A p \in DOMAIN dequeued : dequeued[p] = 1
  /\ openBodies[1] >= 1
  /\ openBodies[2] >= 1

\* C9: a run never gets past buildDownloadList with an empty listing: the
\* process ends there with no goroutine of the run started and no Datapoint
\* printed for the run.
C9_EmptyListingAborts ==
  LET noTask == /\ feederPc = "none"
                /\ collectorPc = "none"
                /\ \A w \in Workers : wpc[w] = "none"
  IN  /\ (mainpc \in AfterBuild \/ ~noTask) => Len(fileList) > 0
      /\ exited = "fatal_empty" =>
           /\ mainpc = "build"
           /\ Len(fileList) = 0
           /\ noTask
           /\ Len(stdout) = runIdx
           /\ fetchCalls = runIdx * NumFilesNeeded(cfg)

C9_Witness ==
  /\ exited = "fatal_empty"
  /\ runIdx = 1
  /\ Len(stdout) = 1

\* C10: with a known file set and a volume that is no multiple of its size,
\* the process never leaves parseFlags, issues no listing or fetch call and
\* prints nothing.
C10_NotMultipleRejected ==
  (/\ flags.set \in DOMAIN fileSets
   /\ (flags.download * MiB) % fileSets[flags.set].Size # 0) =>
    /\ mainpc = "parse"
    /\ exited \in { "running", "fatal_multiple" }
    /\ listCalls = 0
    /\ fetchCalls = 0
    /\ stdout = << >>

C10_Witness ==
  /\ exited = "fatal_multiple"
  /\ flags.count >= 1
  /\ flags.goroutines = 0


\* C11 as stated: a configuration with more workers than files needed, or with
\* zero files needed, ends the process before any listing call, fetch call or
\* goroutine launch.
C11_InconsistentConfigRejected ==
  LET size == fileSets[flags.set].Size
      dlCount == (flags.download * MiB) \div size
  IN  (/\ flags.set \in DOMAIN fileSets
       /\ (flags.download * MiB) % size = 0
       /\ (flags.goroutines > dlCount \/ dlCount = 0)) =>
        /\ listCalls = 0
        /\ fetchCalls = 0
        /\ feederPc = "none"
        /\ collectorPc = "none"
        /\ \A w \in Workers : wpc[w] = "none"

\* C12: the process has printed one Datapoint per returned run and none for
\* the run in progress, it exits normally only after Count runs, a run
\* launches its workers on an empty digest and latency channel and a work
\* channel that holds only what its own feeder sent, and the digest a run
\* prints from holds each sample of that run once and no other.
C12_OneDatapointPerRun ==
  /\ Len(stdout) = runIdx
  /\ runIdx <= cfg.Count
  /\ exited = "exit" => (runIdx = cfg.Count /\ Len(stdout) = cfg.Count)
  /\ mainpc = "start" =>
       (td = EmptyBag /\ latency = << >> /\ Len(work) = feederIdx - 1)
  /\ AboutToPrint =>
       /\ BagCardinality(td) = Len(downloadList)
       /\ \A p \in 1..Len(downloadList) : CopiesIn(p, td) = 1
       /\ datapoint.Goroutines = cfg.Goroutines
       /\ datapoint.TotalSizeBytes = cfg.DownloadSizeBytes

C12_Witness ==
  /\ exited = "exit"
  /\ cfg.Count = 2
  /\ Len(stdout) = 2
  /\ cfg.Goroutines = 2


ReadingQuantiles == mainpc \in { "quantile", "emit" }

\* C13: the digest changes only when run makes it and when the collector adds
\* the sample it received, a step that is no step of main, of the feeder or of
\* a worker; while run reads the quantiles and prints, no Add is enabled.
C13_OnlyCollectorMutates ==
  [][/\ ReadingQuantiles => ~ENABLED CollectorAdd
     /\ td' # td =>
          \/ mainpc = "collector" /\ mainpc' = "start" /\ td' = EmptyBag
          \/ /\ ~ReadingQuantiles
             /\ collectorPc = "run"
             /\ latency # << >>
             /\ td' = td (+) SetToBag({Head(latency)})
             /\ mainpc' = mainpc
             /\ wpc' = wpc
             /\ witem' = witem
             /\ feederPc' = feederPc
             /\ feederIdx' = feederIdx]_vars

C13_Witness ==
  /\ Running
  /\ mainpc = "emit"
  /\ collectorPc = "done"
  /\ BagCardinality(td) = 3
  /\ cfg.Goroutines = 2

\* C14: once the latency channel is closed every launched worker has
\* returned, so no worker sends or waits to send on it; the elapsed time is
\* taken after the last worker returned and before the close.
C14_CloseAfterWorkers ==
  LET allDone == spawned = cfg.Goroutines /\ \A w \in 1..cfg.Goroutines : wpc[w] = "done"
  IN  /\ latencyClosed => (allDone /\ elapsed)
      /\ elapsed => allDone
      /\ mainpc = "close" => (elapsed /\ ~latencyClosed)
      /\ exited # "panic_send_on_closed"

C14_Witness ==
  /\ latencyClosed
  /\ elapsed
  /\ cfg.Goroutines = 2
  /\ Len(downloadList) = 3
  /\ \A w \in 1..2 : wpc[w] = "done"

\* C15: the channel size is min(N, 1024); neither channel ever buffers more,
\* and a sender finds no step to take while its channel is full.
C15_QueueCapacity ==
  LET cap == IF cfg.Goroutines < 1024 THEN cfg.Goroutines ELSE 1024
  IN  /\ \A n \in { 0, 1, 2, 1023, 1024, 1025, 4096 } :
           ChanSizeOf([Goroutines |-> n]) = IF n < 1024 THEN n ELSE 1024
      /\ mainpc \in AfterBuild \ { "feeder" } => chanSize = cap
      /\ Len(work) <= cap
      /\ Len(latency) <= cap
      /\ Len(work) >= cap => ~ENABLED FeederPush
      /\ Len(latency) >= cap => \A w \in Workers : ~ENABLED WorkerSend(w)

C15_Witness ==
  /\ chanSize = 2
  /\ Len(work) = 2
  /\ feederPc = "push"
  /\ feederIdx <= Len(downloadList)
  /\ \E w \in Workers : wpc[w] = "recv"


\* C16: the feeder sends the positions 1, 2, ..., L in this order, the work
\* channel holds them in this order, it is closed by one step of the feeder
\* taken after the send of position L, and no send follows the close.
C16_FeedThenClose ==
  [][/\ (work' # work /\ Len(work') >= Len(work)) =>
          /\ ~workClosed
          /\ feederIdx <= Len(downloadList)
          /\ work' = Append(work, feederIdx)
          /\ feederIdx' = feederIdx + 1
     /\ (~workClosed /\ workClosed') =>
          /\ feederPc = "push"
          /\ feederPc' = "done"
          /\ feederIdx = Len(downloadList) + 1
     /\ workClosed => feederPc = "done"
     /\ \A i \in 1..Len(work') : work'[i] = feederIdx' - Len(work') + i - 1]_vars

C16_Witness ==
  /\ workClosed
  /\ Len(downloadList) = 3
  /\ feederIdx = 4
  /\ cfg.Goroutines = 2
  /\ work = << 2, 3 >>

\* C17: the workers launched are as many as the launch loop has counted, at
\* most N, and exactly N once run waits for them; at most N fetches are in
\* flight; no worker exists and no item is received before startTime is taken.
C17_WorkersAfterStart ==
  LET launched == { w \in Workers : wpc[w] # "none" }
      inFlight == { w \in Workers : wpc[w] = "fetch" }
  IN  /\ Cardinality(launched) = spawned
      /\ spawned <= cfg.Goroutines
      /\ mainpc \in { "elapsed", "close", "waitdone", "quantile", "emit" }
           => spawned = cfg.Goroutines
      /\ Cardinality(inFlight) <= cfg.Goroutines
      /\ (launched # {} \/ mainpc = "spawn") => started
      /\ (\E p \in DOMAIN dequeued : dequeued[p] > 0) => started

C17_Witness ==
  /\ started
  /\ cfg.Goroutines = 2
  /\ \A w \in 1..2 : wpc[w] = "fetch"

\* C18: when run prints its Datapoint and returns, its feeder has sent every
\* item and closed the work channel, its N workers have returned and its
\* collector has closed latencyDone.
C18_TasksDoneAtEmit ==
  AboutToPrint =>
    /\ feederPc = "done"
    /\ feederIdx = Len(downloadList) + 1
    /\ workClosed
    /\ work = << >>
    /\ spawned = cfg.Goroutines
    /\ \A w \in 1..cfg.Goroutines : wpc[w] = "done"
    /\ wg = 0
    /\ collectorPc = "done"
    /\ latencyDone
    /\ latency = << >>

C18_Witness ==
  /\ AboutToPrint
  /\ runIdx = 1
  /\ cfg.Goroutines = 2
  /\ Len(downloadList) = 3

RECURSIVE SumOpenBodies(_)
SumOpenBodies(n) == IF n = 0 THEN 0 ELSE openBodies[n] + SumOpenBodies(n - 1)

\* C19 as stated: each worker holds at most one response body that is not
\* closed, so at most N bodies are open.
C19_OneOpenBodyPerWorker ==
  /\ \A w \in Workers : openBodies[w] <= 1
  /\ SumOpenBodies(MaxGoroutines) <= cfg.Goroutines

\* C20: position i of the work list holds the key at position i mod M of the
\* shuffled listing (counting from 0), and the numbers of occurrences of any
\* two listed keys differ by at most one.
C20_CyclicWorkList ==
  BuildReturned =>
    /\ Len(downloadList) = NumFilesNeeded(cfg)
    /\ \A i \in 0..(Len(downloadList) - 1) :
         downloadList[i + 1] = fileList[(i % Len(fileList)) + 1]
    /\ \A k1, k2 \in Range(fileList) :
         Occurrences(downloadList, k1) - Occurrences(downloadList, k2) <= 1

C20_Witness ==
  /\ mainpc = "feeder"
  /\ Len(fileList) = 2
  /\ fileList[1] = 2
  /\ downloadList = << 2, 1, 2 >>

====
